---------------------------- MODULE Spec2Model ----------------------------
(***************************************************************************)
(* Access-control and credential core of the FastAPI/DocumentDB backend:   *)
(* the Users and Items collections, the principal resolution of            *)
(* app/api/deps.py, the route handlers of app/api/routes and the           *)
(* unauthenticated CRUD endpoints of app/api/api_v1/endpoints.             *)
(*                                                                         *)
(* A handler is one action.  A handler whose claim-relevant behaviour      *)
(* depends on what other requests do between two of its awaits is split at *)
(* that await: the email check and the insert of register_user and         *)
(* create_user, the principal resolution and the insert of create_item,    *)
(* and the listing, the item deletions and the user deletion of            *)
(* delete_user.                                                            *)
(*                                                                         *)
(* created_at / updated_at are written once at construction and by no      *)
(* handler afterwards; they are left out of the records.                   *)
(***************************************************************************)
EXTENDS Integers, Sequences, FiniteSets, Bags, TLC

\* ------------------------------------------------------------------ bounds

\* ObjectIds are fresh on every construction: ids are handed out by a
\* counter and never reused.  The counters are capped by these bounds.
MaxUsers == 2
MaxItems == 1
\* Handlers suspended between their check and their write, at most.
MaxPending == 2
\* CRUDBase.create's uuid4 ids are handed out by a counter capped by this.
MaxLegacy == 2

\* ------------------------------------------------------- program constants

\* crud.get_items_by_owner(owner_id, skip=0, limit=100)
DefaultLimit == 100
\* crud.get_items_by_owner(owner_id, skip=0, limit=100)
DefaultSkip == 0

\* ------------------------------------------------------------ value domains

\* Optional[...] = None for an id, and for a string.
NoId == 0
NoStr == "None"

UserIds == 1..MaxUsers
ItemIds == 1..MaxItems

\* settings.FIRST_SUPERUSER / FIRST_SUPERUSER_PASSWORD, used by init_db.
FIRST_SUPERUSER == "admin@x"
FIRST_SUPERUSER_PASSWORD == "pw0"

Emails == {FIRST_SUPERUSER, "a@x", "b@x"}
Passwords == {FIRST_SUPERUSER_PASSWORD, "pw1", "pw2"}
FullNames == {NoStr, "Ann"}
Titles == {"t1", "t2"}
Descriptions == {NoStr, "d1"}

\* A bearer token as the request carries it: none at all, one that does not
\* decode (bad signature, expired, malformed subject), or a valid one whose
\* subject is a user id.  A valid token stays valid when its user is deleted.
NoToken == <<"none", NoId>>
BadToken == <<"bad", NoId>>
Jwt(sub) == <<"jwt", sub>>
Tokens == {NoToken, BadToken} \cup {Jwt(i) : i \in UserIds}

\* ------------------------------------------------------ credential service

\* app.core.security: get_password_hash is a one-way term over the
\* plaintext, never the plaintext itself; verify_password accepts exactly
\* the plaintext the hash was made from.
get_password_hash(password) == <<"hash", password>>

verify_password(plain_password, hashed_password) ==
    hashed_password = get_password_hash(plain_password)

\* -------------------------------------------------------------------- state

VARIABLES
    users,           \* the "users" collection: a set of User documents
    items,           \* the "items" collection: a set of Item documents
    nextUserId,      \* the next fresh ObjectId of a User
    nextItemId,      \* the next fresh ObjectId of an Item
    pendingUsers,    \* bag of user creations past their email check, before insert
    pendingItems,    \* bag of item creations past principal resolution, before insert
    pendingDeletes,  \* set of delete_user calls past their listing, before user.delete()
    legacyUsers,     \* the "users" collection of app.db.mongodb (CRUDBase)
    legacyItems,     \* the "items" collection of app.db.mongodb (CRUDBase)
    nextLegacyId,    \* the next fresh uuid4 of CRUDBase.create
    response         \* the last response sent: the request it answers and its status

store == <<users, items, nextUserId, nextItemId>>
pending == <<pendingUsers, pendingItems, pendingDeletes>>
legacy == <<legacyUsers, legacyItems, nextLegacyId>>
vars == <<users, items, nextUserId, nextItemId, pendingUsers, pendingItems,
          pendingDeletes, legacyUsers, legacyItems, nextLegacyId, response>>

\* --------------------------------------------------------------- documents

\* models.User
User(id, email, hashed_password, is_active, is_superuser, full_name) ==
    [id |-> id, email |-> email, hashed_password |-> hashed_password,
     is_active |-> is_active, is_superuser |-> is_superuser,
     full_name |-> full_name]

\* models.Item
Item(id, owner_id, title, description) ==
    [id |-> id, owner_id |-> owner_id, title |-> title,
     description |-> description]

\* The response to a request: the route, the token the request carried, the
\* path id (NoId when the route has none), the HTTP status, the request
\* body's email / password / new password (NoStr when the body has none),
\* and for a listing its skip and limit and the ItemsPublic it returns: the
\* ids of data in order, and count.
Resp(op, token, id, status) ==
    [op |-> op, token |-> token, id |-> id, status |-> status,
     email |-> NoStr, password |-> NoStr, new_password |-> NoStr,
     skip |-> 0, limit |-> 0, data |-> <<>>, count |-> 0]

\* ------------------------------------------------------------ store queries

\* crud.get_user_by_id: User.get(user_id)
HasUser(user_id) == \E u \in users : u.id = user_id
get_user_by_id(user_id) == CHOOSE u \in users : u.id = user_id

\* crud.get_user_by_email: User.find_one(User.email == email)
HasEmail(email) == \E u \in users : u.email = email
get_user_by_email(email) == CHOOSE u \in users : u.email = email

\* crud.get_item: Item.get(item_id)
HasItem(item_id) == \E i \in items : i.id = item_id
get_item(item_id) == CHOOSE i \in items : i.id = item_id

\* The first n elements of sequence s.
Take(s, n) == SubSeq(s, 1, IF Len(s) < n THEN Len(s) ELSE n)
\* Sequence s without its first n elements.
Drop(s, n) == SubSeq(s, n + 1, Len(s))

\* The ids of set S (of naturals) in ascending order: the collection's
\* natural order, ObjectIds being increasing in creation time.
SortedIds(S) ==
    LET top == IF S = {} THEN 0 ELSE CHOOSE x \in S : \A y \in S : y <= x
    IN SelectSeq([k \in 1..top |-> k], LAMBDA k : k \in S)

\* crud.get_items: Item.find_all().skip(skip).limit(limit)
get_items(skip, limit) ==
    Take(Drop(SortedIds({i.id : i \in items}), skip), limit)

\* Mutant of get_items_by_owner: the owner filter dropped.
get_items_by_owner_AllOwners(owner_id, skip, limit) ==
    get_items(skip, limit)

\* crud.get_items_by_owner: Item.find(owner_id == ..).skip(skip).limit(limit)
get_items_by_owner(owner_id, skip, limit) ==
    Take(Drop(SortedIds({i.id : i \in {j \in items : j.owner_id = owner_id}}),
              skip), limit)

\* Mutant of authenticate: the password is not verified.
authenticate_NoVerify(email, password) ==
    IF ~HasEmail(email) THEN NoId ELSE get_user_by_email(email).id

\* crud.authenticate: the user's id, or NoId for None.
authenticate(email, password) ==
    IF ~HasEmail(email) THEN NoId
    ELSE IF ~verify_password(password, get_user_by_email(email).hashed_password)
         THEN NoId
         ELSE get_user_by_email(email).id

\* ------------------------------------------------------ principal resolution

\* deps.get_current_user: the status it raises, or 200 when it returns a user.
\* No token at all is refused by OAuth2PasswordBearer (401) before it.
get_current_user(token) ==
    IF token = NoToken THEN 401
    ELSE IF token = BadToken THEN 403
    ELSE IF ~HasUser(token[2]) THEN 404
    ELSE 200

\* The user deps.get_current_user returns.
current_user(token) == get_user_by_id(token[2])

\* deps.get_current_active_user
get_current_active_user(token) ==
    IF get_current_user(token) # 200 THEN get_current_user(token)
    ELSE IF ~current_user(token).is_active THEN 400
    ELSE 200

\* Mutant of get_current_active_superuser: the is_superuser test dropped.
get_current_active_superuser_NoRoleCheck(token) ==
    get_current_user(token)

\* deps.get_current_active_superuser
get_current_active_superuser(token) ==
    IF get_current_user(token) # 200 THEN get_current_user(token)
    ELSE IF ~current_user(token).is_superuser THEN 400
    ELSE 200

\* ---------------------------------------------------------------- initial

\* core.db.init_db: the first superuser exists before any request is served.
Init ==
    /\ users = {User(1, FIRST_SUPERUSER,
                     get_password_hash(FIRST_SUPERUSER_PASSWORD),
                     TRUE, TRUE, NoStr)}
    /\ items = {}
    /\ nextUserId = 2
    /\ nextItemId = 1
    /\ pendingUsers = EmptyBag
    /\ pendingItems = EmptyBag
    /\ pendingDeletes = {}
    /\ legacyUsers = {}
    /\ legacyItems = {}
    /\ nextLegacyId = 1
    /\ response = Resp("init_db", NoToken, NoId, 200)


\* ------------------------------------------------------------ request bodies

\* A request body whose fields may be unset: `fields` names the fields the
\* request sets (model_dump(exclude_unset=True) keeps exactly these); the
\* other fields hold their schema default.
\* models.UserUpdate / UserUpdateMe / UserCreate / UserRegister
UserBody(fields, email, password, is_active, is_superuser, full_name) ==
    [fields |-> fields, email |-> email, password |-> password,
     is_active |-> is_active, is_superuser |-> is_superuser,
     full_name |-> full_name]

\* models.UserRegister -> UserCreate.model_validate(user_in): is_active and
\* is_superuser take the defaults of UserBase (True, False).
UserRegister(email, password, full_name) ==
    UserBody({"email", "password", "full_name"}, email, password, TRUE, FALSE,
             full_name)

\* models.UserCreate as the superuser route receives it.
UserCreateIn(email, password, is_active, is_superuser, full_name) ==
    UserBody({"email", "password", "is_active", "is_superuser", "full_name"},
             email, password, is_active, is_superuser, full_name)

\* private.PrivateUserCreate -> UserCreate(email, password, full_name)
PrivateUserCreate(email, password, full_name) ==
    UserBody({"email", "password", "full_name"}, email, password, TRUE, FALSE,
             full_name)

\* models.UserUpdate with one field set.
PatchEmail(email) == UserBody({"email"}, email, NoStr, TRUE, FALSE, NoStr)
PatchPassword(password) ==
    UserBody({"password"}, NoStr, password, TRUE, FALSE, NoStr)
PatchActive(is_active) ==
    UserBody({"is_active"}, NoStr, NoStr, is_active, FALSE, NoStr)
PatchSuperuser(is_superuser) ==
    UserBody({"is_superuser"}, NoStr, NoStr, TRUE, is_superuser, NoStr)
PatchFullName(full_name) ==
    UserBody({"full_name"}, NoStr, NoStr, TRUE, FALSE, full_name)

\* Mutant of UserUpdateMe: every field of the request body is kept.
UserUpdateMe_KeepAll(body) == body

\* models.UserUpdateMe as the route parses a request body: it declares
\* full_name and email only, any other field of the body is dropped.
UserUpdateMe(body) ==
    [body EXCEPT !.fields = @ \cap {"full_name", "email"}]

\* models.ItemCreate / ItemUpdate, fields as for UserBody.
ItemBody(fields, title, description) ==
    [fields |-> fields, title |-> title, description |-> description]

\* --------------------------------------------------------------- user writes

\* Mutant of DuplicateKey: no unique index on email.
DuplicateKey_NoIndex(email, self) == FALSE

\* models.UserBase.email: Indexed(EmailStr, unique=True).  The store refuses
\* (DuplicateKeyError) a write that would give a second document, other
\* than the one with id `self`, this email.
DuplicateKey(email, self) ==
    \E u \in users : u.email = email /\ u.id # self

\* crud.create_user's document: the body without its password, with the
\* hash of the password, under a fresh id.
NewUser(id, body) ==
    User(id, body.email, get_password_hash(body.password), body.is_active,
         body.is_superuser, body.full_name)

\* crud.create_user: hash, build the User, insert.  An insert the unique
\* index refuses raises out of the handler: status 500, nothing stored.
crud_create_user(body, resp) ==
    IF DuplicateKey(body.email, NoId)
    THEN /\ response' = [resp EXCEPT !.status = 500]
         /\ UNCHANGED <<users, nextUserId>>
    ELSE /\ nextUserId <= MaxUsers
         /\ users' = users \cup {NewUser(nextUserId, body)}
         /\ nextUserId' = nextUserId + 1
         /\ response' = [resp EXCEPT !.status = 200, !.id = nextUserId]

\* Mutant of SetUser: the whole document replaced by the body, unset
\* fields at their defaults.
SetUser_Replace(u, body) ==
    User(u.id, body.email,
         IF "password" \in body.fields
         THEN get_password_hash(body.password) ELSE u.hashed_password,
         body.is_active, body.is_superuser, body.full_name)

\* crud.update_user's $set document applied to user u: the fields the body
\* sets, password replaced by hashed_password.
SetUser(u, body) ==
    [u EXCEPT
       !.email = IF "email" \in body.fields THEN body.email ELSE @,
       !.hashed_password = IF "password" \in body.fields
                           THEN get_password_hash(body.password) ELSE @,
       !.is_active = IF "is_active" \in body.fields THEN body.is_active ELSE @,
       !.is_superuser = IF "is_superuser" \in body.fields
                        THEN body.is_superuser ELSE @,
       !.full_name = IF "full_name" \in body.fields THEN body.full_name ELSE @]

\* crud.update_user: a missing user returns None (the route then fails to
\* serialise None: 500); a $set the unique index refuses raises: 500.
crud_update_user(user_id, body, resp) ==
    IF ~HasUser(user_id)
    THEN /\ response' = [resp EXCEPT !.status = 500]
         /\ UNCHANGED users
    ELSE IF "email" \in body.fields /\ DuplicateKey(body.email, user_id)
    THEN /\ response' = [resp EXCEPT !.status = 500]
         /\ UNCHANGED users
    ELSE /\ users' = (users \ {get_user_by_id(user_id)})
                       \cup {SetUser(get_user_by_id(user_id), body)}
         /\ response' = [resp EXCEPT !.status = 200]

\* The response to a request with a user body.
UserResp(op, token, id, status, body) ==
    [Resp(op, token, id, status) EXCEPT
       !.email = IF "email" \in body.fields THEN body.email ELSE NoStr,
       !.password = IF "password" \in body.fields THEN body.password ELSE NoStr]

\* A request answered with `resp` that wrote nothing.
Reply(resp) ==
    /\ response' = resp
    /\ UNCHANGED <<store, pending, legacy>>

\* --------------------------------------------------------------- user routes

\* routes/users.py read_users: superuser only; reads.
read_users(token) ==
    Reply(Resp("read_users", token, NoId, get_current_active_superuser(token)))

\* routes/users.py create_user, run to completion: superuser only, the
\* email check, then crud.create_user.
create_user(token, user_in) ==
    LET resp == UserResp("create_user", token, NoId, 200, user_in) IN
    IF get_current_active_superuser(token) # 200
    THEN Reply([resp EXCEPT !.status = get_current_active_superuser(token)])
    ELSE IF HasEmail(user_in.email)
    THEN Reply([resp EXCEPT !.status = 400])
    ELSE /\ crud_create_user(user_in, resp)
         /\ UNCHANGED <<items, nextItemId, pending, legacy>>

\* routes/users.py register_user, run to completion: no principal, the
\* email check, then crud.create_user.
register_user(user_in) ==
    LET resp == UserResp("register_user", NoToken, NoId, 200, user_in) IN
    IF HasEmail(user_in.email)
    THEN Reply([resp EXCEPT !.status = 400])
    ELSE /\ crud_create_user(user_in, resp)
         /\ UNCHANGED <<items, nextItemId, pending, legacy>>

\* routes/private.py create_user: no principal, no email check.
private_create_user(user_in) ==
    /\ crud_create_user(user_in,
                        UserResp("private_create_user", NoToken, NoId, 200,
                                 user_in))
    /\ UNCHANGED <<items, nextItemId, pending, legacy>>

\* routes/users.py update_user_me, run to completion.  UserUpdateMe has
\* only full_name and email.
update_user_me(token, body) ==
    LET user_in == UserUpdateMe(body)
        resp == UserResp("update_user_me", token, NoId, 200, user_in) IN
    IF get_current_active_user(token) # 200
    THEN Reply([resp EXCEPT !.status = get_current_active_user(token)])
    ELSE IF /\ "email" \in user_in.fields
            /\ HasEmail(user_in.email)
            /\ get_user_by_email(user_in.email).id # current_user(token).id
    THEN Reply([resp EXCEPT !.status = 409])
    ELSE /\ crud_update_user(current_user(token).id, user_in, resp)
         /\ UNCHANGED <<items, nextUserId, nextItemId, pending, legacy>>

\* Mutant of update_password_me: the same-password check dropped.
update_password_me_NoSameCheck(token, current_password, new_password) ==
    LET resp == [Resp("update_password_me", token, NoId, 200) EXCEPT
                   !.password = current_password,
                   !.new_password = new_password] IN
    IF get_current_active_user(token) # 200
    THEN Reply([resp EXCEPT !.status = get_current_active_user(token)])
    ELSE IF ~verify_password(current_password,
                             current_user(token).hashed_password)
    THEN Reply([resp EXCEPT !.status = 400])
    ELSE /\ users' = (users \ {current_user(token)}) \cup
                       {[current_user(token) EXCEPT
                           !.hashed_password = get_password_hash(new_password)]}
         /\ response' = resp
         /\ UNCHANGED <<items, nextUserId, nextItemId, pending, legacy>>

\* Mutant of update_password_me: the hash stored is the current password's.
update_password_me_StoresCurrent(token, current_password, new_password) ==
    LET resp == [Resp("update_password_me", token, NoId, 200) EXCEPT
                   !.password = current_password,
                   !.new_password = new_password] IN
    IF get_current_active_user(token) # 200
    THEN Reply([resp EXCEPT !.status = get_current_active_user(token)])
    ELSE IF ~verify_password(current_password,
                             current_user(token).hashed_password)
    THEN Reply([resp EXCEPT !.status = 400])
    ELSE IF current_password = new_password
    THEN Reply([resp EXCEPT !.status = 400])
    ELSE /\ users' = (users \ {current_user(token)}) \cup
                       {[current_user(token) EXCEPT
                           !.hashed_password =
                               get_password_hash(current_password)]}
         /\ response' = resp
         /\ UNCHANGED <<items, nextUserId, nextItemId, pending, legacy>>

\* routes/users.py update_password_me
update_password_me(token, current_password, new_password) ==
    LET resp == [Resp("update_password_me", token, NoId, 200) EXCEPT
                   !.password = current_password,
                   !.new_password = new_password] IN
    IF get_current_active_user(token) # 200
    THEN Reply([resp EXCEPT !.status = get_current_active_user(token)])
    ELSE IF ~verify_password(current_password,
                             current_user(token).hashed_password)
    THEN Reply([resp EXCEPT !.status = 400])
    ELSE IF current_password = new_password
    THEN Reply([resp EXCEPT !.status = 400])
    ELSE /\ users' = (users \ {current_user(token)}) \cup
                       {[current_user(token) EXCEPT
                           !.hashed_password = get_password_hash(new_password)]}
         /\ response' = resp
         /\ UNCHANGED <<items, nextUserId, nextItemId, pending, legacy>>

\* routes/users.py read_user_me
read_user_me(token) ==
    Reply(Resp("read_user_me", token,
               IF get_current_active_user(token) = 200
               THEN current_user(token).id ELSE NoId,
               get_current_active_user(token)))

\* Mutant of delete_user_me: the superuser guard dropped.
delete_user_me_NoSuperuserGuard(token) ==
    LET resp == Resp("delete_user_me", token, NoId, 200) IN
    IF get_current_active_user(token) # 200
    THEN Reply([resp EXCEPT !.status = get_current_active_user(token)])
    ELSE /\ users' = users \ {current_user(token)}
         /\ response' = [resp EXCEPT !.id = current_user(token).id]
         /\ UNCHANGED <<items, nextUserId, nextItemId, pending, legacy>>

\* routes/users.py delete_user_me: current_user.delete() and nothing else.
delete_user_me(token) ==
    LET resp == Resp("delete_user_me", token, NoId, 200) IN
    IF get_current_active_user(token) # 200
    THEN Reply([resp EXCEPT !.status = get_current_active_user(token)])
    ELSE IF current_user(token).is_superuser
    THEN Reply([resp EXCEPT !.status = 403])
    ELSE /\ users' = users \ {current_user(token)}
         /\ response' = [resp EXCEPT !.id = current_user(token).id]
         /\ UNCHANGED <<items, nextUserId, nextItemId, pending, legacy>>

\* routes/users.py read_user_by_id: any resolved principal (active or not).
read_user_by_id(token, user_id) ==
    LET resp == Resp("read_user_by_id", token, user_id, 200) IN
    IF get_current_user(token) # 200
    THEN Reply([resp EXCEPT !.status = get_current_user(token)])
    ELSE IF ~HasUser(user_id)
    THEN Reply([resp EXCEPT !.status = 404])
    ELSE IF user_id = current_user(token).id
    THEN Reply(resp)
    ELSE IF ~current_user(token).is_superuser
    THEN Reply([resp EXCEPT !.status = 403])
    ELSE Reply(resp)

\* routes/users.py update_user, run to completion: superuser only.
update_user(token, user_id, user_in) ==
    LET resp == UserResp("update_user", token, user_id, 200, user_in) IN
    IF get_current_active_superuser(token) # 200
    THEN Reply([resp EXCEPT !.status = get_current_active_superuser(token)])
    ELSE IF ~HasUser(user_id)
    THEN Reply([resp EXCEPT !.status = 404])
    ELSE IF /\ "email" \in user_in.fields
            /\ HasEmail(user_in.email)
            /\ get_user_by_email(user_in.email).id # user_id
    THEN Reply([resp EXCEPT !.status = 409])
    ELSE /\ crud_update_user(user_id, user_in, resp)
         /\ UNCHANGED <<items, nextUserId, nextItemId, pending, legacy>>


\* The set of the elements of sequence s.
Range(s) == {s[k] : k \in 1..Len(s)}

\* crud.delete_item applied to every id of `ids`: an item that exists is
\* deleted, one that does not is skipped.
DeleteItems(its, ids) == {i \in its : i.id \notin ids}

\* routes/users.py delete_user, run to completion: superuser only; the
\* target's items as get_items_by_owner lists them (skip 0, limit 100) are
\* deleted one by one, then the user.
delete_user(token, user_id) ==
    LET resp == Resp("delete_user", token, user_id, 200) IN
    IF get_current_active_superuser(token) # 200
    THEN Reply([resp EXCEPT !.status = get_current_active_superuser(token)])
    ELSE IF ~HasUser(user_id)
    THEN Reply([resp EXCEPT !.status = 404])
    ELSE IF user_id = current_user(token).id
    THEN Reply([resp EXCEPT !.status = 403])
    ELSE /\ items' = DeleteItems(items,
                 Range(get_items_by_owner(user_id, DefaultSkip, DefaultLimit)))
         /\ users' = users \ {get_user_by_id(user_id)}
         /\ response' = resp
         /\ UNCHANGED <<nextUserId, nextItemId, pending, legacy>>

\* --------------------------------------------------------------- item routes

\* Mutant of crud_create_item: an owner_id the body carries is kept.
crud_create_item_BodyOwner(item_in, owner_id, resp) ==
    /\ nextItemId <= MaxItems
    /\ items' = items \cup
                  {Item(nextItemId,
                        IF "owner_id" \in item_in.fields
                        THEN item_in.owner_id ELSE owner_id,
                        item_in.title, item_in.description)}
    /\ nextItemId' = nextItemId + 1
    /\ response' = [resp EXCEPT !.id = nextItemId]

\* crud.create_item: model_dump() of the body, then item_data["owner_id"] =
\* owner_id over whatever the body carried, a fresh id; insert.
crud_create_item(item_in, owner_id, resp) ==
    /\ nextItemId <= MaxItems
    /\ items' = items \cup
                  {Item(nextItemId, owner_id, item_in.title, item_in.description)}
    /\ nextItemId' = nextItemId + 1
    /\ response' = [resp EXCEPT !.id = nextItemId]

\* Mutant of SetItem: the updated Item passes to no owner.
SetItem_DropOwner(i, item_in) ==
    [i EXCEPT
       !.owner_id = NoId,
       !.title = IF "title" \in item_in.fields THEN item_in.title ELSE @,
       !.description = IF "description" \in item_in.fields
                       THEN item_in.description ELSE @]

\* crud.update_item's $set document applied to item i.
SetItem(i, item_in) ==
    [i EXCEPT
       !.title = IF "title" \in item_in.fields THEN item_in.title ELSE @,
       !.description = IF "description" \in item_in.fields
                       THEN item_in.description ELSE @]

\* Mutant of NotEnoughPermissions: the ownership comparison dropped.
NotEnoughPermissions_NoOwnerCheck(user, item) == FALSE

\* routes/items.py: not superuser and not the owner.
NotEnoughPermissions(user, item) ==
    ~user.is_superuser /\ item.owner_id # user.id

\* routes/items.py read_items: a superuser gets crud.get_items and
\* Item.count(), anyone else crud.get_items_by_owner and the count of the
\* Items with owner_id == current_user.id.
read_items(token, skip, limit) ==
    LET resp == [Resp("read_items", token, NoId, 200) EXCEPT
                   !.skip = skip, !.limit = limit] IN
    IF get_current_user(token) # 200
    THEN Reply([resp EXCEPT !.status = get_current_user(token)])
    ELSE IF current_user(token).is_superuser
    THEN Reply([resp EXCEPT !.data = get_items(skip, limit),
                            !.count = Cardinality(items)])
    ELSE Reply([resp EXCEPT
                  !.data = get_items_by_owner(current_user(token).id,
                                              skip, limit),
                  !.count = Cardinality({i \in items :
                                 i.owner_id = current_user(token).id})])

\* Mutant of read_item: the ownership check before the existence check.
read_item_OwnershipFirst(token, id) ==
    LET resp == Resp("read_item", token, id, 200) IN
    IF get_current_user(token) # 200
    THEN Reply([resp EXCEPT !.status = get_current_user(token)])
    ELSE IF /\ ~current_user(token).is_superuser
            /\ (HasItem(id) => get_item(id).owner_id # current_user(token).id)
    THEN Reply([resp EXCEPT !.status = 400])
    ELSE IF ~HasItem(id)
    THEN Reply([resp EXCEPT !.status = 404])
    ELSE Reply(resp)

\* routes/items.py read_item
read_item(token, id) ==
    LET resp == Resp("read_item", token, id, 200) IN
    IF get_current_user(token) # 200
    THEN Reply([resp EXCEPT !.status = get_current_user(token)])
    ELSE IF ~HasItem(id)
    THEN Reply([resp EXCEPT !.status = 404])
    ELSE IF NotEnoughPermissions(current_user(token), get_item(id))
    THEN Reply([resp EXCEPT !.status = 400])
    ELSE Reply(resp)

\* Mutant of create_item: the token's subject taken as the owner without
\* looking the user up.
create_item_TrustsSubject(token, item_in) ==
    LET resp == Resp("create_item", token, NoId, 200) IN
    IF token \in {NoToken, BadToken}
    THEN Reply([resp EXCEPT !.status = IF token = NoToken THEN 401 ELSE 403])
    ELSE /\ crud_create_item(item_in, token[2], resp)
         /\ UNCHANGED <<users, nextUserId, pending, legacy>>

\* routes/items.py create_item, run to completion.
create_item(token, item_in) ==
    LET resp == Resp("create_item", token, NoId, 200) IN
    IF get_current_user(token) # 200
    THEN Reply([resp EXCEPT !.status = get_current_user(token)])
    ELSE /\ crud_create_item(item_in, current_user(token).id, resp)
         /\ UNCHANGED <<users, nextUserId, pending, legacy>>

\* routes/items.py update_item
update_item(token, id, item_in) ==
    LET resp == Resp("update_item", token, id, 200) IN
    IF get_current_user(token) # 200
    THEN Reply([resp EXCEPT !.status = get_current_user(token)])
    ELSE IF ~HasItem(id)
    THEN Reply([resp EXCEPT !.status = 404])
    ELSE IF NotEnoughPermissions(current_user(token), get_item(id))
    THEN Reply([resp EXCEPT !.status = 400])
    ELSE /\ items' = (items \ {get_item(id)}) \cup {SetItem(get_item(id), item_in)}
         /\ response' = resp
         /\ UNCHANGED <<users, nextUserId, nextItemId, pending, legacy>>

\* routes/items.py delete_item
delete_item(token, id) ==
    LET resp == Resp("delete_item", token, id, 200) IN
    IF get_current_user(token) # 200
    THEN Reply([resp EXCEPT !.status = get_current_user(token)])
    ELSE IF ~HasItem(id)
    THEN Reply([resp EXCEPT !.status = 404])
    ELSE IF NotEnoughPermissions(current_user(token), get_item(id))
    THEN Reply([resp EXCEPT !.status = 400])
    ELSE /\ items' = DeleteItems(items, {id})
         /\ response' = resp
         /\ UNCHANGED <<users, nextUserId, nextItemId, pending, legacy>>


\* ------------------------------------------------- Spec: users and items API

\* The request bodies the requests of Spec are drawn from.
SpecRegistrations == {UserRegister(e, "pw1", NoStr) : e \in Emails}
SpecUserPatches == {PatchSuperuser(b) : b \in BOOLEAN}
SpecItemBodies == {ItemBody({"title", "description"}, "t1", NoStr)}
SpecItemPatches == {ItemBody({"title"}, "t2", NoStr)}

\* The tokens the requests of Spec carry: none, or a valid one.
SpecTokens == {NoToken} \cup {Jwt(i) : i \in UserIds}

Next ==
    \/ \E user_in \in SpecRegistrations : register_user(user_in)
    \/ \E t \in SpecTokens : delete_user_me(t)
    \/ \E t \in SpecTokens, id \in UserIds, user_in \in SpecUserPatches :
          update_user(t, id, user_in)
    \/ \E t \in SpecTokens, id \in UserIds : delete_user(t, id)
    \/ \E t \in SpecTokens, item_in \in SpecItemBodies : create_item(t, item_in)
    \/ \E t \in SpecTokens, id \in ItemIds : read_item(t, id)
    \/ \E t \in SpecTokens, id \in ItemIds, item_in \in SpecItemPatches :
          update_item(t, id, item_in)
    \/ \E t \in SpecTokens, id \in ItemIds : delete_item(t, id)

Spec == Init /\ [][Next]_vars


\* ------------------------------- SpecRace: check-then-act on the user email

\* A user write suspended between the handler's email check and its
\* crud call: the route, the token, the target id (NoId for a creation) and
\* the body.
PendingUser(route, token, id, body) ==
    [route |-> route, token |-> token, id |-> id, body |-> body]

\* The handler suspends at `await crud.create_user(..)` / `crud.update_user(..)`.
Suspend(p) ==
    /\ BagCardinality(pendingUsers) < MaxPending
    /\ pendingUsers' = pendingUsers (+) SetToBag({p})
    /\ UNCHANGED <<store, pendingItems, pendingDeletes, legacy, response>>

\* Mutant of register_user_check: the email check dropped.
register_user_check_NoCheck(user_in) ==
    /\ BagCardinality(pendingUsers) < MaxPending
    /\ pendingUsers' = pendingUsers (+)
           SetToBag({PendingUser("register_user", NoToken, NoId, user_in)})
    /\ UNCHANGED <<store, pendingItems, pendingDeletes, legacy, response>>

\* routes/users.py register_user up to its crud call: the email check.
register_user_check(user_in) ==
    IF HasEmail(user_in.email)
    THEN Reply(UserResp("register_user", NoToken, NoId, 400, user_in))
    ELSE Suspend(PendingUser("register_user", NoToken, NoId, user_in))

\* routes/users.py create_user up to its crud call: superuser only, the
\* email check.
create_user_check(token, user_in) ==
    LET resp == UserResp("create_user", token, NoId, 200, user_in) IN
    IF get_current_active_superuser(token) # 200
    THEN Reply([resp EXCEPT !.status = get_current_active_superuser(token)])
    ELSE IF HasEmail(user_in.email)
    THEN Reply([resp EXCEPT !.status = 400])
    ELSE Suspend(PendingUser("create_user", token, NoId, user_in))

\* routes/users.py update_user_me up to its crud call.
update_user_me_check(token, body) ==
    LET user_in == UserUpdateMe(body)
        resp == UserResp("update_user_me", token, NoId, 200, user_in) IN
    IF get_current_active_user(token) # 200
    THEN Reply([resp EXCEPT !.status = get_current_active_user(token)])
    ELSE IF /\ "email" \in user_in.fields
            /\ HasEmail(user_in.email)
            /\ get_user_by_email(user_in.email).id # current_user(token).id
    THEN Reply([resp EXCEPT !.status = 409])
    ELSE Suspend(PendingUser("update_user_me", token, current_user(token).id,
                             user_in))

\* routes/users.py update_user up to its crud call.
update_user_check(token, user_id, user_in) ==
    LET resp == UserResp("update_user", token, user_id, 200, user_in) IN
    IF get_current_active_superuser(token) # 200
    THEN Reply([resp EXCEPT !.status = get_current_active_superuser(token)])
    ELSE IF ~HasUser(user_id)
    THEN Reply([resp EXCEPT !.status = 404])
    ELSE IF /\ "email" \in user_in.fields
            /\ HasEmail(user_in.email)
            /\ get_user_by_email(user_in.email).id # user_id
    THEN Reply([resp EXCEPT !.status = 409])
    ELSE Suspend(PendingUser("update_user", token, user_id, user_in))

\* The suspended handler p resumes: crud.create_user or crud.update_user,
\* then the response.
write_user(p) ==
    /\ p \in BagToSet(pendingUsers)
    /\ pendingUsers' = pendingUsers (-) SetToBag({p})
    /\ IF p.route \in {"register_user", "create_user"}
       THEN crud_create_user(p.body,
                             UserResp(p.route, p.token, p.id, 200, p.body))
       ELSE /\ crud_update_user(p.id, p.body,
                                UserResp(p.route, p.token, p.id, 200, p.body))
            /\ UNCHANGED nextUserId
    /\ UNCHANGED <<items, nextItemId, pendingItems, pendingDeletes, legacy>>

\* The request bodies and tokens the requests of SpecRace are drawn from.
RaceEmails == {FIRST_SUPERUSER, "a@x"}
RaceRegistrations == {UserRegister(e, "pw1", NoStr) : e \in RaceEmails}
RaceCreations == {UserCreateIn(e, "pw1", TRUE, FALSE, NoStr) : e \in RaceEmails}
RacePatches == {PatchEmail(e) : e \in RaceEmails}
RaceTokens == {Jwt(i) : i \in UserIds}

NextRace ==
    \/ \E user_in \in RaceRegistrations : register_user_check(user_in)
    \/ \E t \in RaceTokens, user_in \in RaceCreations :
          create_user_check(t, user_in)
    \/ \E user_in \in RaceRegistrations : private_create_user(user_in)
    \/ \E t \in RaceTokens, user_in \in RacePatches :
          update_user_me_check(t, user_in)
    \/ \E t \in RaceTokens, id \in UserIds, user_in \in RacePatches :
          update_user_check(t, id, user_in)
    \/ \E p \in BagToSet(pendingUsers) : write_user(p)

SpecRace == Init /\ [][NextRace]_vars

\* ------------------------------------ SpecCascade: delete_user step by step

\* A delete_user call past its listing: the token, the target id and the
\* ids of the listed items still to delete.
PendingDelete(token, id, todo) == [token |-> token, id |-> id, todo |-> todo]

\* routes/users.py delete_user up to the end of its listing: superuser
\* only, the target exists and is not the caller, then
\* crud.get_items_by_owner(owner_id=user_object_id) with its default skip
\* and limit.
delete_user_list(token, user_id) ==
    LET resp == Resp("delete_user", token, user_id, 200) IN
    IF get_current_active_superuser(token) # 200
    THEN Reply([resp EXCEPT !.status = get_current_active_superuser(token)])
    ELSE IF ~HasUser(user_id)
    THEN Reply([resp EXCEPT !.status = 404])
    ELSE IF user_id = current_user(token).id
    THEN Reply([resp EXCEPT !.status = 403])
    ELSE /\ Cardinality(pendingDeletes) < MaxPending
         /\ pendingDeletes' = pendingDeletes \cup
               {PendingDelete(token, user_id,
                   get_items_by_owner(user_id, DefaultSkip, DefaultLimit))}
         /\ UNCHANGED <<store, pendingUsers, pendingItems, legacy, response>>

\* routes/users.py delete_user, one turn of `for item in items`:
\* crud.delete_item of the next listed item.
delete_user_item(p) ==
    /\ p \in pendingDeletes
    /\ p.todo # <<>>
    /\ items' = DeleteItems(items, {Head(p.todo)})
    /\ pendingDeletes' = (pendingDeletes \ {p}) \cup
                           {PendingDelete(p.token, p.id, Tail(p.todo))}
    /\ UNCHANGED <<users, nextUserId, nextItemId, pendingUsers, pendingItems,
                   legacy, response>>

\* routes/users.py delete_user after its loop: user.delete(), the response.
delete_user_finish(p) ==
    /\ p \in pendingDeletes
    /\ p.todo = <<>>
    /\ users' = {u \in users : u.id # p.id}
    /\ pendingDeletes' = pendingDeletes \ {p}
    /\ response' = Resp("delete_user", p.token, p.id, 200)
    /\ UNCHANGED <<items, nextUserId, nextItemId, pendingUsers, pendingItems,
                   legacy>>

\* How many Items the target of SpecCascade owns at the start: none, a few,
\* exactly the listing's limit, and one more than the limit.
CascadeSizes == {0, 1, 2, DefaultLimit, DefaultLimit + 1}

\* The store after init_db, one registration (user 2) and n item creations
\* by user 2.
InitCascade ==
    \E n \in CascadeSizes :
       /\ users = {User(1, FIRST_SUPERUSER,
                        get_password_hash(FIRST_SUPERUSER_PASSWORD),
                        TRUE, TRUE, NoStr),
                   User(2, "a@x", get_password_hash("pw1"), TRUE, FALSE, NoStr)}
       /\ items = {Item(k, 2, "t1", NoStr) : k \in 1..n}
       /\ nextUserId = 3
       /\ nextItemId = n + 1
       /\ pendingUsers = EmptyBag
       /\ pendingItems = EmptyBag
       /\ pendingDeletes = {}
       /\ legacyUsers = {}
       /\ legacyItems = {}
       /\ nextLegacyId = 1
       /\ response = Resp("create_item", Jwt(2), n, 200)

CascadeTokens == {NoToken, Jwt(1), Jwt(2)}

NextCascade ==
    \/ \E t \in CascadeTokens, id \in {1, 2} : delete_user_list(t, id)
    \/ \E p \in pendingDeletes : delete_user_item(p)
    \/ \E p \in pendingDeletes : delete_user_finish(p)

SpecCascade == InitCascade /\ [][NextCascade]_vars

\* --------------------------------- SpecOpen: the api_v1 endpoints (CRUDBase)

LegacyIds == 1..MaxLegacy

\* The document CRUDBase.create stores for schemas.UserCreate: obj_in.dict()
\* as it is (email, is_active, is_superuser, full_name and the password as
\* given) under a fresh uuid4.
LegacyUser(id, body) ==
    [id |-> id, email |-> body.email, password |-> body.password,
     is_active |-> body.is_active, is_superuser |-> body.is_superuser,
     full_name |-> body.full_name]

\* The document CRUDBase.create stores for schemas.ItemCreate.
LegacyItem(id, body) ==
    [id |-> id, title |-> body.title, description |-> body.description]

\* CRUDBase.get: collection.find_one({"_id": id})
LegacyHas(coll, id) == \E d \in coll : d.id = id
LegacyGet(coll, id) == CHOOSE d \in coll : d.id = id

\* An api_v1 request answered with `resp` that wrote nothing.
LegacyReply(resp) ==
    /\ response' = resp
    /\ UNCHANGED <<store, pending, legacy>>

\* api_v1/endpoints/users.py read_users: no dependency; CRUDBase.get_multi.
api_v1_read_users(token) ==
    /\ response' = Resp("api_v1.read_users", token, NoId, 200)
    /\ UNCHANGED <<store, pending, legacy>>

\* api_v1/endpoints/users.py create_user: no dependency; CRUDBase.create.
api_v1_create_user(token, user_in) ==
    /\ nextLegacyId <= MaxLegacy
    /\ legacyUsers' = legacyUsers \cup {LegacyUser(nextLegacyId, user_in)}
    /\ nextLegacyId' = nextLegacyId + 1
    /\ response' = UserResp("api_v1.create_user", token, nextLegacyId, 200,
                            user_in)
    /\ UNCHANGED <<store, pending, legacyItems>>

\* api_v1/endpoints/users.py read_user: no dependency; CRUDBase.get.
api_v1_read_user(token, user_id) ==
    LegacyReply(Resp("api_v1.read_user", token, user_id,
                     IF LegacyHas(legacyUsers, user_id) THEN 200 ELSE 404))

\* api_v1/endpoints/users.py update_user: no dependency; CRUDBase.update
\* $sets obj_in.dict(exclude_unset=True).
api_v1_update_user(token, user_id, user_in) ==
    LET resp == UserResp("api_v1.update_user", token, user_id, 200, user_in) IN
    IF ~LegacyHas(legacyUsers, user_id)
    THEN LegacyReply([resp EXCEPT !.status = 404])
    ELSE /\ legacyUsers' = (legacyUsers \ {LegacyGet(legacyUsers, user_id)})
                             \cup {LegacyUser(user_id, user_in)}
         /\ response' = resp
         /\ UNCHANGED <<store, pending, legacyItems, nextLegacyId>>

\* api_v1/endpoints/users.py delete_user: no dependency; CRUDBase.remove.
api_v1_delete_user(token, user_id) ==
    LET resp == Resp("api_v1.delete_user", token, user_id, 200) IN
    IF ~LegacyHas(legacyUsers, user_id)
    THEN LegacyReply([resp EXCEPT !.status = 404])
    ELSE /\ legacyUsers' = legacyUsers \ {LegacyGet(legacyUsers, user_id)}
         /\ response' = resp
         /\ UNCHANGED <<store, pending, legacyItems, nextLegacyId>>

\* api_v1/endpoints/items.py read_items: no dependency; CRUDBase.get_multi.
api_v1_read_items(token) ==
    /\ response' = Resp("api_v1.read_items", token, NoId, 200)
    /\ UNCHANGED <<store, pending, legacy>>

\* api_v1/endpoints/items.py create_item: no dependency; CRUDBase.create.
api_v1_create_item(token, item_in) ==
    /\ nextLegacyId <= MaxLegacy
    /\ legacyItems' = legacyItems \cup {LegacyItem(nextLegacyId, item_in)}
    /\ nextLegacyId' = nextLegacyId + 1
    /\ response' = Resp("api_v1.create_item", token, nextLegacyId, 200)
    /\ UNCHANGED <<store, pending, legacyUsers>>

\* api_v1/endpoints/items.py read_item: no dependency; CRUDBase.get.
api_v1_read_item(token, item_id) ==
    LegacyReply(Resp("api_v1.read_item", token, item_id,
                     IF LegacyHas(legacyItems, item_id) THEN 200 ELSE 404))

\* api_v1/endpoints/items.py update_item: no dependency; CRUDBase.update.
api_v1_update_item(token, item_id, item_in) ==
    LET resp == Resp("api_v1.update_item", token, item_id, 200) IN
    IF ~LegacyHas(legacyItems, item_id)
    THEN LegacyReply([resp EXCEPT !.status = 404])
    ELSE /\ legacyItems' = (legacyItems \ {LegacyGet(legacyItems, item_id)})
                             \cup {LegacyItem(item_id, item_in)}
         /\ response' = resp
         /\ UNCHANGED <<store, pending, legacyUsers, nextLegacyId>>

\* api_v1/endpoints/items.py delete_item: no dependency; CRUDBase.remove.
api_v1_delete_item(token, item_id) ==
    LET resp == Resp("api_v1.delete_item", token, item_id, 200) IN
    IF ~LegacyHas(legacyItems, item_id)
    THEN LegacyReply([resp EXCEPT !.status = 404])
    ELSE /\ legacyItems' = legacyItems \ {LegacyGet(legacyItems, item_id)}
         /\ response' = resp
         /\ UNCHANGED <<store, pending, legacyUsers, nextLegacyId>>

\* The tokens and bodies the requests of SpecOpen are drawn from: its
\* callers carry no principal (no token, or one that does not decode).
OpenTokens == {NoToken, BadToken}
OpenUserBodies ==
    {UserCreateIn("a@x", pw, TRUE, FALSE, NoStr) : pw \in {"pw1", "pw2"}}
OpenItemBodies ==
    {ItemBody({"title", "description"}, t, "d1") : t \in Titles}

NextOpen ==
    \/ \E t \in OpenTokens : api_v1_read_users(t)
    \/ \E t \in OpenTokens, b \in OpenUserBodies : api_v1_create_user(t, b)
    \/ \E t \in OpenTokens, id \in LegacyIds : api_v1_read_user(t, id)
    \/ \E t \in OpenTokens, id \in LegacyIds, b \in OpenUserBodies :
          api_v1_update_user(t, id, b)
    \/ \E t \in OpenTokens, id \in LegacyIds : api_v1_delete_user(t, id)
    \/ \E t \in OpenTokens : api_v1_read_items(t)
    \/ \E t \in OpenTokens, b \in OpenItemBodies : api_v1_create_item(t, b)
    \/ \E t \in OpenTokens, id \in LegacyIds : api_v1_read_item(t, id)
    \/ \E t \in OpenTokens, id \in LegacyIds, b \in OpenItemBodies :
          api_v1_update_item(t, id, b)
    \/ \E t \in OpenTokens, id \in LegacyIds : api_v1_delete_item(t, id)
    \/ \E user_in \in SpecRegistrations : register_user(user_in)
    \/ \E user_in \in SpecRegistrations : private_create_user(user_in)
    \/ \E t \in OpenTokens : read_users(t)
    \/ \E t \in OpenTokens : read_user_me(t)
    \/ \E t \in OpenTokens : delete_user_me(t)
    \/ \E t \in OpenTokens, id \in UserIds : read_user_by_id(t, id)
    \/ \E t \in OpenTokens, id \in UserIds, user_in \in SpecUserPatches :
          update_user(t, id, user_in)
    \/ \E t \in OpenTokens, id \in UserIds : delete_user(t, id)
    \/ \E t \in OpenTokens : read_items(t, DefaultSkip, DefaultLimit)
    \/ \E t \in OpenTokens, item_in \in SpecItemBodies : create_item(t, item_in)
    \/ \E t \in OpenTokens, id \in ItemIds : read_item(t, id)
    \/ \E t \in OpenTokens, id \in ItemIds, item_in \in SpecItemPatches :
          update_item(t, id, item_in)
    \/ \E t \in OpenTokens, id \in ItemIds : delete_item(t, id)

SpecOpen == Init /\ [][NextOpen]_vars

\* ------------------------------------------- SpecCred: the password lifecycle

\* The request bodies and tokens the requests of SpecCred are drawn from.
\* The last patch is the one of tests/crud/test_user.py test_update_user.
CredRegistrations ==
    {UserRegister(e, p, NoStr) : e \in {"a@x"}, p \in Passwords}
CredPatches ==
    {PatchPassword(p) : p \in Passwords} \cup
    {PatchActive(b) : b \in BOOLEAN} \cup
    {UserBody({"password", "is_superuser"}, NoStr, "pw2", TRUE, TRUE, NoStr)}
CredTokens == {NoToken} \cup {Jwt(i) : i \in UserIds}

NextCred ==
    \/ \E user_in \in CredRegistrations : register_user(user_in)
    \/ \E user_in \in CredRegistrations : private_create_user(user_in)
    \/ \E t \in CredTokens, cur \in Passwords, new \in Passwords :
          update_password_me(t, cur, new)
    \/ \E t \in CredTokens, id \in UserIds, user_in \in CredPatches :
          update_user(t, id, user_in)

SpecCred == Init /\ [][NextCred]_vars

\* ---------------------------------------------- SpecPatch: partial updates

\* The patches the update requests of SpecPatch carry: each single field of
\* UserUpdate, the two fields of tests/crud/test_user.py test_update_user,
\* and no field at all; for UserUpdateMe and ItemUpdate likewise.
PatchUserBodies ==
    {PatchEmail("b@x"), PatchPassword("pw2"), PatchActive(FALSE),
     PatchSuperuser(TRUE), PatchFullName("Ann"),
     UserBody({"password", "is_superuser"}, NoStr, "pw2", TRUE, TRUE, NoStr),
     UserBody({}, NoStr, NoStr, TRUE, FALSE, NoStr)}
PatchMeBodies ==
    {PatchEmail("b@x"), PatchFullName("Ann"),
     UserBody({}, NoStr, NoStr, TRUE, FALSE, NoStr)}
PatchItemBodies ==
    {ItemBody({"title"}, "t2", NoStr), ItemBody({"description"}, "t1", "d1"),
     ItemBody({}, "t1", NoStr)}
PatchRegistrations == {UserRegister("a@x", "pw1", NoStr)}
PatchItemCreations == {ItemBody({"title", "description"}, "t1", NoStr)}
\* The first superuser issues the item requests and the update_user
\* requests, on user 2; both users issue update_user_me.
PatchSuperTokens == {Jwt(1)}
PatchTokens == {Jwt(1), Jwt(2)}
PatchTargets == {2}

NextPatch ==
    \/ \E user_in \in PatchRegistrations : register_user(user_in)
    \/ \E t \in PatchSuperTokens, item_in \in PatchItemCreations :
          create_item(t, item_in)
    \/ \E t \in PatchSuperTokens, id \in PatchTargets,
          user_in \in PatchUserBodies :
          update_user(t, id, user_in)
    \/ \E t \in PatchTokens, user_in \in PatchMeBodies :
          update_user_me(t, user_in)
    \/ \E t \in PatchSuperTokens, id \in ItemIds, item_in \in PatchItemBodies :
          update_item(t, id, item_in)

SpecPatch == Init /\ [][NextPatch]_vars

\* ------------------------------------- SpecAdmin: the superuser-only routes

\* The requests of SpecAdmin: every user-administration route, called by
\* the first superuser, by user 2 (regular until promoted) and with no token.
AdminRegistrations == {UserRegister("a@x", "pw1", NoStr)}
AdminCreations == {UserCreateIn("b@x", "pw1", TRUE, FALSE, NoStr)}
AdminPatches == {PatchSuperuser(b) : b \in BOOLEAN} \cup {PatchFullName("Ann")}
AdminTokens == {NoToken, Jwt(1), Jwt(2)}
AdminTargets == {1, 2}

NextAdmin ==
    \/ \E user_in \in AdminRegistrations : register_user(user_in)
    \/ \E t \in AdminTokens : read_users(t)
    \/ \E t \in AdminTokens, user_in \in AdminCreations : create_user(t, user_in)
    \/ \E t \in AdminTokens, id \in AdminTargets : read_user_by_id(t, id)
    \/ \E t \in AdminTokens, id \in AdminTargets, user_in \in AdminPatches :
          update_user(t, id, user_in)
    \/ \E t \in AdminTokens, id \in AdminTargets : delete_user(t, id)

SpecAdmin == Init /\ [][NextAdmin]_vars

\* ------------------------------------------------ SpecItems: item creation

\* A create_item request body that carries an owner_id next to the fields
\* of ItemCreate.
ItemBodyWithOwner(title, description, owner_id) ==
    [fields |-> {"title", "description", "owner_id"}, title |-> title,
     description |-> description, owner_id |-> owner_id]

\* The requests of SpecItems: item bodies with and without an owner_id of
\* their own, item reads, updates and deletes and user updates, from the
\* first superuser, from user 2 and with no token.
ItemsRegistrations == {UserRegister("a@x", "pw1", NoStr)}
ItemsCreations ==
    {ItemBody({"title", "description"}, "t1", NoStr)} \cup
    {ItemBodyWithOwner("t2", "d1", o) : o \in {1, 2}}
ItemsPatches == {ItemBody({"title"}, "t2", NoStr)}
ItemsUserPatches == {PatchFullName("Ann")}
ItemsTokens == {NoToken, Jwt(1), Jwt(2)}

NextItems ==
    \/ \E user_in \in ItemsRegistrations : register_user(user_in)
    \/ \E t \in ItemsTokens, item_in \in ItemsCreations : create_item(t, item_in)
    \/ \E t \in ItemsTokens, id \in ItemIds : read_item(t, id)
    \/ \E t \in ItemsTokens, id \in ItemIds, item_in \in ItemsPatches :
          update_item(t, id, item_in)
    \/ \E t \in ItemsTokens, id \in ItemIds : delete_item(t, id)
    \/ \E t \in ItemsTokens, id \in {1, 2}, user_in \in ItemsUserPatches :
          update_user(t, id, user_in)

SpecItems == Init /\ [][NextItems]_vars

\* ------------------------------------------------- SpecList: item listings

\* The most Items the store of SpecList starts with.
MaxListed == 3

\* The store after init_db, one registration (user 2) and n item creations,
\* each by user 1 or by user 2.
InitList ==
    \E n \in 0..MaxListed : \E owner \in [1..n -> {1, 2}] :
       /\ users = {User(1, FIRST_SUPERUSER,
                        get_password_hash(FIRST_SUPERUSER_PASSWORD),
                        TRUE, TRUE, NoStr),
                   User(2, "a@x", get_password_hash("pw1"), TRUE, FALSE, NoStr)}
       /\ items = {Item(k, owner[k], "t1", NoStr) : k \in 1..n}
       /\ nextUserId = 3
       /\ nextItemId = n + 1
       /\ pendingUsers = EmptyBag
       /\ pendingItems = EmptyBag
       /\ pendingDeletes = {}
       /\ legacyUsers = {}
       /\ legacyItems = {}
       /\ nextLegacyId = 1
       /\ response = Resp("register_user", NoToken, 2, 200)

\* The requests of SpecList: listings with a skip and a limit below, at and
\* above the number of Items, and item deletions.
ListTokens == {NoToken, Jwt(1), Jwt(2)}
ListSkips == {DefaultSkip, 1}
ListLimits == {0, 1, 2, DefaultLimit}

NextList ==
    \/ \E t \in ListTokens, skip \in ListSkips, limit \in ListLimits :
          read_items(t, skip, limit)
    \/ \E t \in ListTokens, id \in 1..MaxListed : delete_item(t, id)

SpecList == InitList /\ [][NextList]_vars

\* ----------------------------- SpecOrphan: create_item against user deletion

\* A create_item request past its principal resolution, before its insert:
\* the token, the id of the user get_current_user returned, and the body.
PendingItem(token, owner_id, item_in) ==
    [token |-> token, owner_id |-> owner_id, body |-> item_in]

\* routes/items.py create_item up to the handler's body: the CurrentUser
\* dependency awaits crud.get_user_by_id and hands the user to the handler.
create_item_resolve(token, item_in) ==
    IF get_current_user(token) # 200
    THEN Reply(Resp("create_item", token, NoId, get_current_user(token)))
    ELSE /\ BagCardinality(pendingItems) < MaxPending
         /\ pendingItems' = pendingItems (+)
               SetToBag({PendingItem(token, current_user(token).id, item_in)})
         /\ UNCHANGED <<store, pendingUsers, pendingDeletes, legacy, response>>

\* routes/items.py create_item, the handler's body:
\* await crud.create_item(item_in, owner_id=current_user.id) with the user
\* resolved before, then the response.
create_item_insert(p) ==
    /\ p \in BagToSet(pendingItems)
    /\ pendingItems' = pendingItems (-) SetToBag({p})
    /\ crud_create_item(p.body, p.owner_id,
                        Resp("create_item", p.token, NoId, 200))
    /\ UNCHANGED <<users, nextUserId, pendingUsers, pendingDeletes, legacy>>

NextOrphan ==
    \/ \E user_in \in ItemsRegistrations : register_user(user_in)
    \/ \E t \in ItemsTokens, item_in \in SpecItemBodies :
          create_item_resolve(t, item_in)
    \/ \E p \in BagToSet(pendingItems) : create_item_insert(p)
    \/ \E t \in ItemsTokens : delete_user_me(t)
    \/ \E t \in ItemsTokens, id \in UserIds : delete_user(t, id)

SpecOrphan == Init /\ [][NextOrphan]_vars

\* ------------------------------------------ SpecInactive: inactive principals

\* The patches of SpecInactive: a superuser deactivates, reactivates and
\* promotes users.
InactivePatches == {PatchActive(b) : b \in BOOLEAN} \cup {PatchSuperuser(TRUE)}

NextInactive ==
    \/ \E user_in \in AdminRegistrations : register_user(user_in)
    \/ \E t \in AdminTokens, id \in AdminTargets, user_in \in InactivePatches :
          update_user(t, id, user_in)
    \/ \E t \in AdminTokens : read_users(t)
    \/ \E t \in AdminTokens, id \in AdminTargets : read_user_by_id(t, id)
    \/ \E t \in AdminTokens, id \in AdminTargets : delete_user(t, id)
    \/ \E t \in AdminTokens : read_user_me(t)
    \/ \E t \in AdminTokens : delete_user_me(t)
    \/ \E t \in AdminTokens, item_in \in SpecItemBodies : create_item(t, item_in)
    \/ \E t \in AdminTokens, id \in ItemIds : read_item(t, id)

SpecInactive == Init /\ [][NextInactive]_vars

\* ------------------------------- SpecRegular: what a non-superuser can reach

\* The requests of SpecRegular: every route a caller without the superuser
\* role may try, with bodies that ask for more than the route gives
\* (is_superuser, is_active), and the superuser-only creations and updates.
RegularMeBodies ==
    PatchMeBodies \cup
    {UserBody({"full_name", "is_active", "is_superuser"}, NoStr, NoStr,
              FALSE, TRUE, "Ann")}
RegularCreations == {UserCreateIn("b@x", "pw1", FALSE, TRUE, NoStr)}
RegularPatches == {PatchSuperuser(TRUE), PatchActive(FALSE)}

NextRegular ==
    \/ \E user_in \in AdminRegistrations : register_user(user_in)
    \/ \E user_in \in AdminRegistrations : private_create_user(user_in)
    \/ \E t \in AdminTokens, body \in RegularMeBodies : update_user_me(t, body)
    \/ \E t \in PatchTokens : update_password_me(t, "pw1", "pw2")
    \/ \E t \in PatchTokens : delete_user_me(t)
    \/ \E t \in AdminTokens, user_in \in RegularCreations :
          create_user(t, user_in)
    \/ \E t \in AdminTokens, id \in PatchTargets, user_in \in RegularPatches :
          update_user(t, id, user_in)
    \/ \E t \in PatchTokens, item_in \in PatchItemCreations :
          create_item(t, item_in)
    \/ \E t \in PatchTokens, id \in ItemIds, item_in \in ItemsPatches :
          update_item(t, id, item_in)
    \/ \E t \in PatchTokens, id \in ItemIds : delete_item(t, id)

SpecRegular == Init /\ [][NextRegular]_vars

\* ------------------------------------ SpecDeleted: the token of a deleted user

\* A user registers, the superuser may promote it (so that the first
\* superuser can be deleted too), users are deleted by
\* themselves or by a superuser, and both users' tokens, which stay valid,
\* are presented to every route that resolves a principal.
DeletedPatches == {PatchSuperuser(TRUE)}

NextDeleted ==
    \/ \E user_in \in AdminRegistrations : register_user(user_in)
    \/ \E t \in PatchTokens, id \in AdminTargets : delete_user(t, id)
    \/ \E t \in PatchTokens : delete_user_me(t)
    \/ \E t \in PatchTokens, id \in PatchTargets, user_in \in DeletedPatches :
          update_user(t, id, user_in)
    \/ \E t \in PatchTokens : read_users(t)
    \/ \E t \in PatchTokens, user_in \in AdminCreations : create_user(t, user_in)
    \/ \E t \in PatchTokens, id \in AdminTargets : read_user_by_id(t, id)
    \/ \E t \in PatchTokens : read_user_me(t)
    \/ \E t \in PatchTokens, body \in ItemsUserPatches : update_user_me(t, body)
    \/ \E t \in PatchTokens : update_password_me(t, "pw1", "pw2")
    \/ \E t \in PatchTokens : read_items(t, DefaultSkip, DefaultLimit)
    \/ \E t \in PatchTokens, item_in \in PatchItemCreations :
          create_item(t, item_in)
    \/ \E t \in PatchTokens, id \in ItemIds : read_item(t, id)
    \/ \E t \in PatchTokens, id \in ItemIds, item_in \in ItemsPatches :
          update_item(t, id, item_in)
    \/ \E t \in PatchTokens, id \in ItemIds : delete_item(t, id)

SpecDeleted == Init /\ [][NextDeleted]_vars

\* ------------------------------------------------------------------- claims

\* The token is a valid one whose user exists and is not a superuser.
IsRegular(token) ==
    /\ token[1] = "jwt"
    /\ HasUser(token[2])
    /\ ~get_user_by_id(token[2]).is_superuser

\* The token is a valid one whose user exists and is a superuser.
IsSuperuser(token) ==
    /\ token[1] = "jwt"
    /\ HasUser(token[2])
    /\ get_user_by_id(token[2]).is_superuser

ItemOps == {"read_item", "update_item", "delete_item"}

\* C1: whenever a regular (non-superuser) principal P calls get, update or
\* delete on an existing Item I, whatever came before: if I.owner_id # P.id
\* the call is denied (400) and neither Items nor Users change; if
\* I.owner_id = P.id the call succeeds (200), and a delete removes I.
C1_RegularUserItemAccess ==
    [][LET r == response' IN
       (r.op \in ItemOps /\ IsRegular(r.token) /\ HasItem(r.id)) =>
          IF get_item(r.id).owner_id # r.token[2]
          THEN r.status = 400 /\ items' = items /\ users' = users
          ELSE /\ r.status = 200
               /\ users' = users
               /\ r.op = "read_item" => items' = items
               /\ r.op = "delete_item" => items' = items \ {get_item(r.id)}
               /\ r.op = "update_item" =>
                    \E i \in items' : i.id = r.id /\ i.owner_id = r.token[2]
      ]_vars

\* C1 witness: a regular user was just denied the delete of an existing Item
\* that another regular user owns.
C1_Witness ==
    /\ response.op = "delete_item"
    /\ response.status = 400
    /\ IsRegular(response.token)
    /\ HasItem(response.id)
    /\ get_item(response.id).owner_id # response.token[2]
    /\ IsRegular(Jwt(get_item(response.id).owner_id))


\* C3: a superuser S deleting another existing user by id succeeds and the
\* target's record is gone; delete_user with S's own id, and delete_user_me
\* by S, are denied and leave Users and Items unchanged.
C3_SuperuserDelete ==
    [][LET r == response' IN
       /\ (r.op = "delete_user" /\ IsSuperuser(r.token) /\ HasUser(r.id)
             /\ r.id # r.token[2]) =>
            (r.status = 200 /\ \A u \in users' : u.id # r.id)
       /\ (r.op = "delete_user" /\ IsSuperuser(r.token)
             /\ r.id = r.token[2]) =>
            (r.status = 403 /\ users' = users /\ items' = items)
       /\ (r.op = "delete_user_me" /\ IsSuperuser(r.token)) =>
            (r.status # 200 /\ users' = users /\ items' = items)
      ]_vars

\* C3 witness: a superuser who owns an Item was just denied the delete of
\* its own record by id, while another user exists.
C3_Witness ==
    /\ response.op = "delete_user"
    /\ response.status = 403
    /\ IsSuperuser(response.token)
    /\ response.id = response.token[2]
    /\ \E i \in items : i.owner_id = response.id
    /\ \E u \in users : u.id # response.id

\* C5: after a regular user's delete_user_me succeeded, no Item whose
\* owner_id is that user's id remains.  (response.id is the deleted id.)
C5_SelfDeleteLeavesNoItems ==
    (response.op = "delete_user_me" /\ response.status = 200) =>
        \A i \in items : i.owner_id # response.id


\* C2: no two stored User records have the same email, in every reachable
\* state of every interleaving of the email checks and the writes of
\* register_user, create_user, the private create_user, update_user_me and
\* update_user.
C2_EmailUnique ==
    \A u1 \in users : \A u2 \in users : u1.email = u2.email => u1 = u2

\* C2 witness: two creations with the same email both passed their email
\* check before either insert; one was just inserted and the other is still
\* suspended before its insert.
C2_Witness ==
    /\ response.op \in {"register_user", "create_user"}
    /\ response.status = 200
    /\ HasEmail(response.email)
    /\ get_user_by_email(response.email).id = response.id
    /\ \E p \in BagToSet(pendingUsers) :
          /\ p.route \in {"register_user", "create_user"}
          /\ p.body.email = response.email

\* C7: when register_user or (as a superuser) create_user is called with an
\* email a stored User already has, the call is answered 400 and the set of
\* stored Users is unchanged; and no such call gets past its email check.
\* (A step that answers one of these routes and leaves the suspended
\* handlers alone is the call's email check; a step that adds a suspended
\* creation is a call whose check passed.)
C7_ExistingEmailDenied ==
    [][LET r == response' IN
       /\ (/\ r.op \in {"register_user", "create_user"}
           /\ r # response
           /\ pendingUsers' = pendingUsers
           /\ r.op = "create_user" => IsSuperuser(r.token)
           /\ HasEmail(r.email)) =>
             (r.status = 400 /\ users' = users)
       /\ \A p \in BagToSet(pendingUsers') :
             (/\ p.route \in {"register_user", "create_user"}
              /\ CopiesIn(p, pendingUsers') > CopiesIn(p, pendingUsers)) =>
                ~HasEmail(p.body.email)
      ]_vars

\* C7 witness: a registration with the email of a stored user was just
\* answered 400.
C7_Witness ==
    /\ response.op = "register_user"
    /\ response.status = 400
    /\ HasEmail(response.email)
    /\ Cardinality(users) = 2


\* C4: when delete_user has answered 200 for target id, however many Items
\* the target owned, no Item with owner_id = id remains.
C4_DeleteLeavesNoItems ==
    (response.op = "delete_user" /\ response.status = 200) =>
        \A i \in items : i.owner_id # response.id


\* A request without an authenticated principal: no token, or a token that
\* does not decode.
Unauthenticated(token) == token \in {NoToken, BadToken}

\* C6: every entry point that reads, creates, updates or deletes a User or
\* an Item, other than user registration (and login), answers a request
\* that carries no authenticated principal with 401 or 403: no such request
\* is served.  (The private create-user route is counted with registration
\* here.)
C6_NoUnauthenticatedAccess ==
    (/\ Unauthenticated(response.token)
     /\ response.op \notin {"init_db", "register_user", "private_create_user"})
       => response.status \in {401, 403}


\* C8: update_password_me by a resolved principal is answered 400 and leaves
\* every stored User (so every hashed_password) unchanged whenever the
\* current password does not verify against the stored hash, or the new
\* password equals the current password.
C8_PasswordUpdateDenied ==
    [][LET r == response' IN
       (/\ r.op = "update_password_me"
        /\ r.token[1] = "jwt"
        /\ HasUser(r.token[2])
        /\ \/ ~verify_password(r.password, current_user(r.token).hashed_password)
           \/ r.new_password = r.password) =>
          (r.status = 400 /\ users' = users)
      ]_vars

\* C8 witness: a user who gave the correct current password was just denied
\* (400) a change to that same password.
C8_Witness ==
    /\ response.op = "update_password_me"
    /\ response.status = 400
    /\ HasUser(response.token[2])
    /\ current_user(response.token).is_active
    /\ verify_password(response.password,
                       current_user(response.token).hashed_password)
    /\ response.new_password = response.password

\* The passwords that verify against user u's stored hash.
Verifying(u) == {p \in Passwords : verify_password(p, u.hashed_password)}

\* C9: right after update_password_me succeeds (correct current password,
\* different new password), authenticate with the user's email and the new
\* password returns that user and with the old password returns no user;
\* likewise right after an update_user that sets the password: the new
\* password authenticates, and a different password that verified before
\* no longer does.
C9_NewPasswordAuthenticates ==
    [][\A id \in UserIds, new \in Passwords, old \in Passwords :
       /\ (/\ response'.op = "update_password_me"
           /\ response'.status = 200
           /\ response'.token = Jwt(id)
           /\ response'.new_password = new
           /\ response'.password = old) =>
            /\ new # old
            /\ verify_password(old, get_user_by_id(id).hashed_password)
            /\ (authenticate(get_user_by_id(id).email, new) = id)'
            /\ (authenticate(get_user_by_id(id).email, old) = NoId)'
       /\ (/\ response'.op = "update_user"
           /\ response'.status = 200
           /\ response'.id = id
           /\ response'.password = new) =>
            /\ (authenticate(get_user_by_id(id).email, new) = id)'
            /\ (/\ old # new
                /\ verify_password(old, get_user_by_id(id).hashed_password)) =>
                  (authenticate(get_user_by_id(id).email, old) = NoId)'
      ]_vars

\* C9 witness: a user other than the first superuser just changed its
\* password from one that verified to a different one.
C9_Witness ==
    /\ response.op = "update_password_me"
    /\ response.status = 200
    /\ response.token[2] # 1
    /\ HasUser(response.token[2])
    /\ response.new_password \in Verifying(current_user(response.token))

CreateOps == {"register_user", "create_user", "private_create_user"}

\* C10: right after a user is created with (email, password),
\* authenticate(email, password) returns the created user (its id, and the
\* stored user of that id has that email); authenticate with an email no
\* stored user has, or with a password that does not verify against the
\* stored hash, returns no user.
C10_CreateThenAuthenticate ==
    /\ (response.op \in CreateOps /\ response.status = 200) =>
          /\ authenticate(response.email, response.password) = response.id
          /\ response.id # NoId
          /\ get_user_by_id(response.id).email = response.email
    /\ \A e \in Emails, p \in Passwords :
          \/ /\ HasEmail(e)
             /\ verify_password(p, get_user_by_email(e).hashed_password)
          \/ authenticate(e, p) = NoId

\* C10 witness: a registration just succeeded while another user with a
\* different password is stored.
C10_Witness ==
    /\ response.op = "register_user"
    /\ response.status = 200
    /\ authenticate(response.email, response.password) = response.id
    /\ \E u \in users : response.password \notin Verifying(u)

\* The stored fields of a User a patch with the fields `fields` may change.
UserFieldsOf(fields) ==
    {IF f = "password" THEN "hashed_password" ELSE f : f \in fields}
UserFields ==
    {"id", "email", "hashed_password", "is_active", "is_superuser", "full_name"}
ItemFields == {"id", "owner_id", "title", "description"}

\* Across the step, of the Users only the fields `fields` of the user with
\* id `id` may differ, no User appears or disappears, and the Items are the
\* same.
UserFrame(id, fields) ==
    /\ items' = items
    /\ {u.id : u \in users'} = {u.id : u \in users}
    /\ \A u \in users, v \in users' :
          v.id = u.id =>
             \A f \in UserFields :
                v[f] # u[f] => (u.id = id /\ f \in UserFieldsOf(fields))

\* Across the step, of the Items only the fields `fields` of the item with
\* id `id` may differ, no Item appears or disappears, and the Users are the
\* same.
ItemFrame(id, fields) ==
    /\ users' = users
    /\ {i.id : i \in items'} = {i.id : i \in items}
    /\ \A i \in items, j \in items' :
          j.id = i.id =>
             \A f \in ItemFields :
                j[f] # i[f] => (i.id = id /\ f \in fields)

\* C11: an update_user, update_user_me or update_item step changes only the
\* fields its patch sets, on its target only: every other stored field of
\* the target and every other record are unchanged; a patch that sets only
\* password changes only hashed_password.
C11_PartialUpdateFrame ==
    [][/\ response'.op = "update_user" =>
            \A b \in PatchUserBodies :
               update_user(response'.token, response'.id, b) =>
                  UserFrame(response'.id, b.fields)
       /\ response'.op = "update_user_me" =>
            \A b \in PatchMeBodies :
               update_user_me(response'.token, b) =>
                  UserFrame(response'.token[2], b.fields)
       /\ response'.op = "update_item" =>
            \A b \in PatchItemBodies :
               update_item(response'.token, response'.id, b) =>
                  ItemFrame(response'.id, b.fields)
      ]_vars

\* C11 witness: a password-only patch was just applied to a user whose
\* other fields had been patched away from their defaults.
C11_Witness ==
    /\ response.op = "update_user"
    /\ response.status = 200
    /\ response.password = "pw2"
    /\ HasUser(response.id)
    /\ get_user_by_id(response.id).hashed_password = get_password_hash("pw2")
    /\ get_user_by_id(response.id).full_name = "Ann"
    /\ ~get_user_by_id(response.id).is_active
    /\ ~get_user_by_id(response.id).is_superuser

AdminOps == {"read_users", "create_user", "update_user", "delete_user"}

\* C12: a call by a non-superuser principal P to read_users, create_user,
\* update_user or delete_user never succeeds, whatever the target; its
\* read_user_by_id succeeds only when the target's id is P's own; and each
\* of these calls that is denied leaves Users and Items unchanged.
C12_RegularUserAdminDenied ==
    [][LET r == response' IN
       IsRegular(r.token) =>
          /\ r.op \in AdminOps => r.status # 200
          /\ (r.op = "read_user_by_id" /\ r.status = 200) => r.id = r.token[2]
          /\ (r.op \in AdminOps \cup {"read_user_by_id"} /\ r.status # 200) =>
                (users' = users /\ items' = items /\ nextUserId' = nextUserId)
      ]_vars

\* C12 witness: a regular user was just denied the deletion of another
\* existing user.
C12_Witness ==
    /\ response.op = "delete_user"
    /\ IsRegular(response.token)
    /\ HasUser(response.id)
    /\ response.id # response.token[2]
    /\ response.status # 200

\* C13: every Item that appears in the store was inserted by create_item
\* and has owner_id equal to the id of the principal of that request,
\* whatever the request body carries; a create_item that succeeds inserts
\* exactly one such Item and one that is denied inserts none.
C13_CreatedItemOwnedByCaller ==
    [][LET r == response' IN
       /\ \A i \in items' :
             (\A j \in items : j.id # i.id) =>
                /\ r.op = "create_item"
                /\ r.status = 200
                /\ r.id = i.id
                /\ r.token[1] = "jwt"
                /\ HasUser(r.token[2])
                /\ i.owner_id = r.token[2]
       /\ (r.op = "create_item" /\ r.status = 200) =>
             \E i \in items' : i.id = r.id /\ i \notin items
      ]_vars

\* C13 witness: a create_item of user 2 whose body carried an owner_id just
\* succeeded while user 1 exists, and the stored Item is user 2's.
C13_Witness ==
    /\ response.op = "create_item"
    /\ response.status = 200
    /\ HasItem(response.id)
    /\ get_item(response.id).title = "t2"
    /\ get_item(response.id).owner_id = 2
    /\ HasUser(1)

\* C14: no stored User record holds a plaintext password: the
\* hashed_password of every User of the users collection is the hash of a
\* password and none of its text fields is a password; no text field of a
\* user document stored through CRUDBase is a password.
C14_NoPlaintextPassword ==
    /\ \A u \in users :
          /\ u.hashed_password \in {get_password_hash(p) : p \in Passwords}
          /\ u.email \notin Passwords
          /\ u.full_name \notin Passwords
    /\ \A u \in legacyUsers :
          \A f \in DOMAIN u \ {"id", "is_active", "is_superuser"} :
             u[f] \notin Passwords

C20_ItemIdentityFixed ==
    [][/\ \A i \in items :
             \A j \in items' : j.id = i.id => j.owner_id = i.owner_id
       /\ \A j \in items', k \in items' : j.id = k.id => j = k
       /\ \A j \in items' :
             (\A i \in items : i.id # j.id) => j.id >= nextItemId
      ]_vars

\* C20 witness: a superuser just updated an Item that another user owns,
\* and the Item is still that user's.
C20_Witness ==
    /\ response.op = "update_item"
    /\ response.status = 200
    /\ IsSuperuser(response.token)
    /\ HasItem(response.id)
    /\ get_item(response.id).owner_id # response.token[2]
    /\ get_item(response.id).title = "t2"

\* The length of the page (skip, limit) of a listing of n records.
PageLen(n, skip, limit) ==
    IF n <= skip THEN 0 ELSE IF n - skip < limit THEN n - skip ELSE limit

\* C16: a listing answered 200 to a regular user P holds only Items owned
\* by P, each once, as many as the page (skip, limit) of P's Items has, and
\* its count is the number of all Items P owns whatever skip and limit are;
\* a listing answered to a superuser holds Items of any owner, as many as
\* the page of all Items has (all of them when the page covers them), and
\* its count is the number of all Items.
C16_ListingScopeAndCount ==
    (response.op = "read_items" /\ response.status = 200) =>
       LET P == current_user(response.token)
           scope == IF P.is_superuser THEN items
                    ELSE {i \in items : i.owner_id = P.id}
           data == response.data
       IN /\ Range(data) \subseteq {i.id : i \in scope}
          /\ Cardinality(Range(data)) = Len(data)
          /\ Len(data) =
                PageLen(Cardinality(scope), response.skip, response.limit)
          /\ response.count = Cardinality(scope)

\* C16 witness: a regular user who owns two Items, in a store that also
\* holds an Item of another owner, was just listed one of them with count 2.
C16_Witness ==
    /\ response.op = "read_items"
    /\ response.status = 200
    /\ IsRegular(response.token)
    /\ Len(response.data) = 1
    /\ response.count = 2
    /\ Cardinality(items) = 3

\* C17: when a create_item has just inserted its Item, the Item's owner_id
\* is the id of a User in the store, in every interleaving of the request
\* with a deletion of the creating user.
C17_OwnerExistsAtInsert ==
    (response.op = "create_item" /\ response.status = 200) =>
       /\ HasItem(response.id)
       /\ HasUser(get_item(response.id).owner_id)

\* C18: a request that needs authentication and carries the token of a
\* User whose is_active is false is denied, the superuser-only routes and
\* read_user_by_id included, and changes neither Users nor Items.
C18_InactiveDenied ==
    [][LET r == response' IN
       (/\ r.op \notin {"init_db", "register_user", "private_create_user"}
        /\ r.token[1] = "jwt"
        /\ HasUser(r.token[2])
        /\ ~current_user(r.token).is_active) =>
          (r.status # 200 /\ users' = users /\ items' = items)
      ]_vars

\* The request comes from no superuser: it carries no valid token, or the
\* token of a User that is not a superuser, or of no User at all.
NotSuperuser(token) ==
    \/ Unauthenticated(token)
    \/ IsRegular(token)
    \/ (token[1] = "jwt" /\ ~HasUser(token[2]))

\* C19: a step made by a caller that is not a superuser (register_user, the
\* private create_user, update_user_me, update_password_me, delete_user_me,
\* the item routes, and the superuser-only routes it is denied) leaves
\* is_active and is_superuser of every User that stays as they were, and
\* a User it creates has is_active true and is_superuser false.
C19_NoSelfPromotion ==
    [][LET r == response' IN
       NotSuperuser(r.token) =>
          /\ \A u \in users, v \in users' :
                v.id = u.id =>
                   /\ v.is_active = u.is_active
                   /\ v.is_superuser = u.is_superuser
          /\ \A v \in users' :
                (\A u \in users : u.id # v.id) =>
                   (v.is_active /\ ~v.is_superuser)
      ]_vars

\* C19 witness: a regular user's update_user_me whose body asked for
\* is_superuser and is_active next to full_name just succeeded, and the
\* user is still active and not a superuser.
C19_Witness ==
    /\ response.op = "update_user_me"
    /\ response.status = 200
    /\ IsRegular(response.token)
    /\ current_user(response.token).full_name = "Ann"
    /\ current_user(response.token).is_active

\* The token is a valid one whose subject is the id of a User that was
\* created and is no longer stored.
TokenOfDeleted(token) ==
    /\ token[1] = "jwt"
    /\ token[2] < nextUserId
    /\ ~HasUser(token[2])

\* C21: a request that presents the valid token of a deleted User is answered
\* 404 by get_current_user, writes nothing to Users or Items and returns
\* nothing read from them.
C21_DeletedTokenFails ==
    [][LET r == response' IN
       TokenOfDeleted(r.token) =>
          /\ r.status = 404
          /\ r.data = <<>>
          /\ r.count = 0
          /\ UNCHANGED <<store, pending, legacy>>
      ]_vars

\* C21 witness: user 2 was deleted while the item store was not empty, and
\* its token was just refused with 404 on create_item.
C21_Witness ==
    /\ response.op = "create_item"
    /\ response.token = Jwt(2)
    /\ response.status = 404
    /\ TokenOfDeleted(response.token)
    /\ items # {}

==========================================================================
